---- MODULE Spec2Model ----
(***************************************************************************)
(* Enterprise project analytics dashboard: the credit-weight rebalancer of *)
(* core/admin.py and the upload, scorecard and leaderboard views of        *)
(* core/views.py, as state machines over the database tables they read     *)
(* and write.                                                              *)
(*                                                                         *)
(* Numbers the code computes in floating point are modelled as exact       *)
(* rationals <<numerator, denominator>> in lowest terms.                   *)
(***************************************************************************)
EXTENDS Integers, Sequences, FiniteSets, TLC

VARIABLES
    metrics,            \* Metric table: id -> row, or NoMetric
    lastRebalance,      \* the metric whose save ran rebalance_credits last, or 0
    default_threshold,  \* Metric.default_threshold: id -> number
    metric_weights,     \* MetricWeight table: metric id -> group id -> row, or NoWeight
    projects,           \* Project table: the rows in primary-key order
    scorecard,          \* the last response of project_scorecard_view, or NoResponse
    leaderboard,        \* the last response of leaderboard_view, or NoResponse
    upload,             \* the last outcome of upload_view, or NoResponse
    uploading,          \* the upload_view between its delete and its insert, or NoUpload
    reader,             \* what the last concurrent reader found in the Project table, or NoResponse
    requests            \* the requests of concurrent clients in flight: client -> its position and locals

(***************************************************************************)
(* Bounds of the model.                                                    *)
(***************************************************************************)
NumMetrics == 3
NumGroups == 2
NumDepartments == 1

MetricIds == 1..NumMetrics
GroupIds == 1..NumGroups
DepartmentIds == 1..NumDepartments
Stages == {"Pre", "Post"}

\* credit weights an operator types into the admin form
EditWeights == {30, 40, 60}

(***************************************************************************)
(* Exact rational arithmetic.                                              *)
(***************************************************************************)
RECURSIVE GCD(_, _)
GCD(a, b) == IF b = 0 THEN a ELSE GCD(b, a % b)

Abs(n) == IF n < 0 THEN -n ELSE n

Norm(n, d) ==
    LET g == GCD(Abs(n), d)
    IN  IF n = 0 THEN <<0, 1>> ELSE <<n \div g, d \div g>>

Rat(n) == <<n, 1>>
FAdd(x, y) == Norm(x[1] * y[2] + y[1] * x[2], x[2] * y[2])
FSub(x, y) == Norm(x[1] * y[2] - y[1] * x[2], x[2] * y[2])
FMul(x, y) == Norm(x[1] * y[1], x[2] * y[2])
FDivInt(x, k) == Norm(x[1], x[2] * k)
FLe(x, y) == x[1] * y[2] <= y[1] * x[2]
FLt(x, y) == x[1] * y[2] < y[1] * x[2]
FMax(x, y) == IF FLe(x, y) THEN y ELSE x
FMin(x, y) == IF FLe(x, y) THEN x ELSE y

\* floor of a rational
FFloor(x) == x[1] \div x[2]

\* int(x): truncation towards zero
FTrunc(x) == IF x[1] >= 0 THEN x[1] \div x[2] ELSE -((-x[1]) \div x[2])

\* round(x, 0) as an integer: to the nearest, a tie to the even neighbour
RoundHalfEven(x) ==
    LET q == FFloor(x)
        twice == 2 * (x[1] - q * x[2])      \* 2 * remainder, against x[2]
    IN  IF twice < x[2] THEN q
        ELSE IF twice > x[2] THEN q + 1
        ELSE IF q % 2 = 0 THEN q ELSE q + 1

\* round(x, 1)
Round1(x) == Norm(RoundHalfEven(FMul(x, Rat(10))), 10)

(***************************************************************************)
(* Text: a string is the sequence of its characters.                       *)
(***************************************************************************)
UpperChars == <<"A", "B", "C", "D", "E", "F", "G", "H", "I", "J", "K", "L", "M", "N", "O", "P", "Q", "R", "S", "T", "U", "V", "W", "X", "Y", "Z">>
LowerChars == <<"a", "b", "c", "d", "e", "f", "g", "h", "i", "j", "k", "l", "m", "n", "o", "p", "q", "r", "s", "t", "u", "v", "w", "x", "y", "z">>

UpperToLower ==
    [c \in {UpperChars[i] : i \in 1..26} |->
        LowerChars[CHOOSE i \in 1..26 : UpperChars[i] = c]]
LowerToUpper ==
    [c \in {LowerChars[i] : i \in 1..26} |->
        UpperChars[CHOOSE i \in 1..26 : LowerChars[i] = c]]

LowerChar(c) == IF c \in DOMAIN UpperToLower THEN UpperToLower[c] ELSE c
UpperChar(c) == IF c \in DOMAIN LowerToUpper THEN LowerToUpper[c] ELSE c

\* str.lower(), str.upper()
Lower(s) == [i \in 1..Len(s) |-> LowerChar(s[i])]
Upper(s) == [i \in 1..Len(s) |-> UpperChar(s[i])]

\* str.strip()
RECURSIVE Strip(_)
Strip(s) ==
    IF s = <<>> THEN s
    ELSE IF Head(s) = " " THEN Strip(Tail(s))
    ELSE IF s[Len(s)] = " " THEN Strip(SubSeq(s, 1, Len(s) - 1))
    ELSE s

\* the places where sub occurs in s
Occurrences(s, sub) ==
    {i \in 1..(Len(s) - Len(sub) + 1) : SubSeq(s, i, i + Len(sub) - 1) = sub}

\* sub in s
Contains(s, sub) == sub = <<>> \/ Occurrences(s, sub) # {}

\* s.split(sep)[-1]
RECURSIVE SplitLast(_, _)
SplitLast(s, sep) ==
    IF Occurrences(s, sep) = {} THEN s
    ELSE LET i == CHOOSE x \in Occurrences(s, sep) :
                    \A y \in Occurrences(s, sep) : x <= y
         IN  SplitLast(SubSeq(s, i + Len(sep), Len(s)), sep)

(***************************************************************************)
(* core/admin.py: MetricAdmin                                              *)
(***************************************************************************)
NoMetric == [absent |-> TRUE]
NoWeight == [no_weight |-> TRUE]
NoResponse == [none |-> TRUE]
NoUpload == [idle |-> TRUE]

\* the clients whose requests may run at the same time
Clients == {1, 2}
NoRequest == [pc |-> "idle"]
NoRequests == [c \in Clients |-> NoRequest]

\* the stages the form of metric m is saved with
StageChoices(m) == IF m = 1 THEN Stages ELSE {"Pre"}

\* the rows an operator submits for metric m; an auto metric's typed weight
\* is the form's initial value
FormRows(m) ==
    {r \in [department : DepartmentIds, stage : StageChoices(m),
            visible_to_groups : SUBSET GroupIds,
            is_manual_credit : BOOLEAN,
            credit_weight : {Rat(w) : w \in EditWeights}] :
        ~r.is_manual_credit =>
            \A w \in EditWeights : FLe(r.credit_weight, Rat(w))}

Present(ms) == {m \in MetricIds : ms[m] # NoMetric}

\* a slip: the stage filter left out of the team's query
TeamMetricsAnyStage(ms, department, stage, group) ==
    {m \in Present(ms) :
        /\ ms[m].department = department
        /\ group \in ms[m].visible_to_groups}

\* Metric.objects.filter(department=..., stage=..., visible_to_groups=group)
TeamMetrics(ms, department, stage, group) ==
    {m \in Present(ms) :
        /\ ms[m].department = department
        /\ ms[m].stage = stage
        /\ group \in ms[m].visible_to_groups}

Manuals(ms, team) == {m \in team : ms[m].is_manual_credit}
Autos(ms, team) == {m \in team : ~ms[m].is_manual_credit}

RECURSIVE SumWeights(_, _)
SumWeights(ms, S) ==
    IF S = {} THEN Rat(0)
    ELSE LET m == CHOOSE x \in S : TRUE
         IN  FAdd(ms[m].credit_weight, SumWeights(ms, S \ {m}))

\* manuals.aggregate(Sum('credit_weight'))['credit_weight__sum'] or 0
ManualSum(ms, team) == SumWeights(ms, Manuals(ms, team))

\* a slip: floor division, remaining_pool // auto_count
NewWeightFloor(remaining_pool, auto_count) ==
    FMax(Rat(0), Rat((remaining_pool[1] \div remaining_pool[2]) \div auto_count))

\* a slip: the clamp max(0, ...) left out
NewWeightNoClamp(remaining_pool, auto_count) ==
    FDivInt(remaining_pool, auto_count)

\* max(0, remaining_pool / auto_count)
NewWeight(remaining_pool, auto_count) ==
    FMax(Rat(0), FDivInt(remaining_pool, auto_count))

\* a slip: the is_manual_credit filter left out of the sum, so the pool is
\* 100 minus the weights of the whole team
RebalanceBucketSumsTeam(ms, department, stage, group) ==
    LET team_metrics == TeamMetrics(ms, department, stage, group)
        autos == Autos(ms, team_metrics)
        remaining_pool == FSub(Rat(100), SumWeights(ms, team_metrics))
        auto_count == Cardinality(autos)
    IN  IF auto_count > 0
        THEN [m \in MetricIds |->
                IF m \in autos
                THEN [ms[m] EXCEPT
                        !.credit_weight = NewWeight(remaining_pool, auto_count)]
                ELSE ms[m]]
        ELSE ms

\* one iteration of the loop over the groups: one bucket
RebalanceBucket(ms, department, stage, group) ==
    LET team_metrics == TeamMetrics(ms, department, stage, group)
        autos == Autos(ms, team_metrics)
        manual_sum == ManualSum(ms, team_metrics)
        remaining_pool == FSub(Rat(100), manual_sum)
        auto_count == Cardinality(autos)
    IN  IF auto_count > 0
        THEN [m \in MetricIds |->
                IF m \in autos
                THEN [ms[m] EXCEPT
                        !.credit_weight = NewWeight(remaining_pool, auto_count)]
                ELSE ms[m]]
        ELSE ms

\* current_metric.visible_to_groups.all(), in primary-key order
RECURSIVE GroupOrder(_)
GroupOrder(G) ==
    IF G = {} THEN <<>>
    ELSE LET g == CHOOSE x \in G : \A y \in G : x <= y
         IN  <<g>> \o GroupOrder(G \ {g})

RECURSIVE RebalanceLoop(_, _, _, _)
RebalanceLoop(ms, department, stage, groups) ==
    IF groups = <<>> THEN ms
    ELSE RebalanceLoop(RebalanceBucket(ms, department, stage, Head(groups)),
                       department, stage, Tail(groups))

\* a slip: a metric without groups rebalanced in the buckets of every group
RebalanceCreditsEveryGroup(ms, current_metric) ==
    LET department == ms[current_metric].department
        stage == ms[current_metric].stage
        groups == GroupOrder(IF ms[current_metric].visible_to_groups = {}
                             THEN GroupIds
                             ELSE ms[current_metric].visible_to_groups)
    IN  RebalanceLoop(ms, department, stage, groups)

RebalanceCredits(ms, current_metric) ==
    LET department == ms[current_metric].department
        stage == ms[current_metric].stage
        groups == GroupOrder(ms[current_metric].visible_to_groups)
    IN  RebalanceLoop(ms, department, stage, groups)

\* The admin saves the form's fields and many-to-many groups, then
\* save_related runs rebalance_credits on the saved metric.
SaveRelated(m, row) ==
    /\ metrics' = RebalanceCredits([metrics EXCEPT ![m] = row], m)
    /\ lastRebalance' = m
    /\ UNCHANGED <<default_threshold, metric_weights, projects, scorecard,
                   leaderboard, upload, uploading, reader, requests>>

(***************************************************************************)
(* MetricAdmin's save and rebalance_credits statement by statement, for    *)
(* the requests of two operators running at the same time. Each ORM        *)
(* statement reads or writes the Metric table as it is when it runs: the   *)
(* querysets team_metrics, manuals and autos are lazy.                     *)
(***************************************************************************)
\* the bucket of the group the loop of client c is at
TeamOf(c) ==
    TeamMetrics(metrics, requests[c].department, requests[c].stage,
                Head(requests[c].groups))

\* the end of one iteration of the loop over the groups
NextGroup(c) ==
    IF Tail(requests[c].groups) = <<>>
    THEN [pc |-> "done", current_metric |-> requests[c].current_metric]
    ELSE [pc |-> "manual_sum",
          current_metric |-> requests[c].current_metric,
          department |-> requests[c].department,
          stage |-> requests[c].stage,
          groups |-> Tail(requests[c].groups)]

\* the admin saves the form of metric m and its groups:
\* super().save_related(...), with obj = form.instance
SaveForm(c, m, row) ==
    /\ requests[c].pc = "idle"
    /\ metrics' = [metrics EXCEPT ![m] = row]
    /\ requests' = [requests EXCEPT
                        ![c] = [pc |-> "groups", current_metric |-> m,
                                department |-> row.department,
                                stage |-> row.stage]]
    /\ UNCHANGED <<lastRebalance, default_threshold, metric_weights, projects,
                   scorecard, leaderboard, upload, uploading, reader>>

\* groups = current_metric.visible_to_groups.all(); if not groups: return
ReadGroups(c) ==
    /\ requests[c].pc = "groups"
    /\ LET groups ==
                GroupOrder(metrics[requests[c].current_metric].visible_to_groups)
       IN  requests' =
                [requests EXCEPT
                    ![c] = IF groups = <<>>
                           THEN [pc |-> "done",
                                 current_metric |-> requests[c].current_metric]
                           ELSE [pc |-> "manual_sum",
                                 current_metric |-> requests[c].current_metric,
                                 department |-> requests[c].department,
                                 stage |-> requests[c].stage,
                                 groups |-> groups]]
    /\ UNCHANGED <<metrics, lastRebalance, default_threshold, metric_weights,
                   projects, scorecard, leaderboard, upload, uploading, reader>>

\* manual_sum = manuals.aggregate(Sum('credit_weight'))[...] or 0
ReadManualSum(c) ==
    /\ requests[c].pc = "manual_sum"
    /\ requests' =
            [requests EXCEPT
                ![c] = [pc |-> "auto_count",
                        current_metric |-> requests[c].current_metric,
                        department |-> requests[c].department,
                        stage |-> requests[c].stage,
                        groups |-> requests[c].groups,
                        manual_sum |-> ManualSum(metrics, TeamOf(c))]]
    /\ UNCHANGED <<metrics, lastRebalance, default_threshold, metric_weights,
                   projects, scorecard, leaderboard, upload, uploading, reader>>

\* auto_count = autos.count(); if auto_count > 0: ...
CountAutos(c) ==
    /\ requests[c].pc = "auto_count"
    /\ LET auto_count == Cardinality(Autos(metrics, TeamOf(c)))
       IN  requests' =
                [requests EXCEPT
                    ![c] = IF auto_count > 0
                           THEN [pc |-> "update",
                                 current_metric |-> requests[c].current_metric,
                                 department |-> requests[c].department,
                                 stage |-> requests[c].stage,
                                 groups |-> requests[c].groups,
                                 manual_sum |-> requests[c].manual_sum,
                                 auto_count |-> auto_count]
                           ELSE NextGroup(c)]
    /\ UNCHANGED <<metrics, lastRebalance, default_threshold, metric_weights,
                   projects, scorecard, leaderboard, upload, uploading, reader>>

\* autos.update(credit_weight=new_weight): the rows that are auto metrics
\* of the bucket when the UPDATE runs
UpdateAutos(c) ==
    /\ requests[c].pc = "update"
    /\ LET autos == Autos(metrics, TeamOf(c))
           remaining_pool == FSub(Rat(100), requests[c].manual_sum)
           new_weight == NewWeight(remaining_pool, requests[c].auto_count)
       IN  metrics' = [m \in MetricIds |->
                        IF m \in autos
                        THEN [metrics[m] EXCEPT !.credit_weight = new_weight]
                        ELSE metrics[m]]
    /\ requests' = [requests EXCEPT ![c] = NextGroup(c)]
    /\ lastRebalance' = requests[c].current_metric
    /\ UNCHANGED <<default_threshold, metric_weights, projects, scorecard,
                   leaderboard, upload, uploading, reader>>

(***************************************************************************)
(* core/views.py: project_scorecard_view                                   *)
(***************************************************************************)
\* UserGroup rows: name and department, by primary key
GroupName(g) ==
    IF g = 1 THEN <<"D", "e", "s", "i", "g", "n", " ", "-", " ", "I", "D">>
    ELSE IF g = 2 THEN <<"S", "a", "l", "e", "s", " ", "L", "e", "a", "d">>
    ELSE <<"D", "e", "s", "i", "g", "n", " ", "-", " ", "D", "M">>
GroupDepartment(g) == ((g - 1) % NumDepartments) + 1

\* raw_role_param.split(' - ')[-1] if ' - ' in raw_role_param else raw_role_param
SearchTerm(raw_role_param) == SplitLast(raw_role_param, <<" ", "-", " ">>)

\* a lookup that falls back to the first group when no name matches
FindUserGroupOrFirst(search_term) ==
    LET found == {g \in GroupIds :
                    Contains(Lower(GroupName(g)), Lower(search_term))}
    IN  IF found = {} THEN 1
        ELSE CHOOSE g \in found : \A h \in found : g <= h

\* UserGroup.objects.filter(name__icontains=search_term).first(); 0: None
FindUserGroup(search_term) ==
    LET found == {g \in GroupIds :
                    Contains(Lower(GroupName(g)), Lower(search_term))}
    IN  IF found = {} THEN 0
        ELSE CHOOSE g \in found : \A h \in found : g <= h

\* Project.objects.filter(project_code=...): the places of the rows
ProjectsWithCode(project_code) ==
    {i \in 1..Len(projects) : projects[i].project_code = project_code}

ScorecardStageWords == {<<"p", "o", "s", "t">>, <<"e", "x", "e", "c">>, <<"o", "p", "s">>}

\* 'Post' if any(x in raw_stage for x in ['post', 'exec', 'ops']) else 'Pre'
MetricStageKey(stage) ==
    LET raw_stage == Lower(Strip(stage))
    IN  IF \E x \in ScorecardStageWords : Contains(raw_stage, x)
        THEN "Post" ELSE "Pre"

\* metric.metricweight_set.filter(user_group=user_group).first(), factor > 0
\* a weight entry taken whatever its factor
WeightedAnyFactor(m, user_group) ==
    metric_weights[m][user_group] # NoWeight

\* weight_obj and weight_obj.factor > 0
Weighted(m, user_group) ==
    /\ metric_weights[m][user_group] # NoWeight
    /\ metric_weights[m][user_group].factor > 0

\* a zero threshold giving no progress whatever the value
RawProgressNoneAtZero(current_value, threshold) ==
    IF threshold > 0 THEN Norm(current_value, threshold) ELSE Rat(0)

\* (current_value / threshold) if threshold > 0 else (1.0 if current_value > 0 else 0.0)
RawProgress(current_value, threshold) ==
    IF threshold > 0 THEN Norm(current_value, threshold)
    ELSE IF current_value > 0 THEN Rat(1) ELSE Rat(0)

\* a slip: the cap left out
CappedProgressNoCap(raw_progress) == raw_progress

\* min(raw_progress, 1.0)
CappedProgress(raw_progress) == FMin(raw_progress, Rat(1))

\* the loop over the metrics of the stage and department, from metric m on
RECURSIVE TempList(_, _, _, _)
TempList(project, user_group, metric_stage_key, m) ==
    IF m > NumMetrics THEN <<>>
    ELSE LET selected ==
                /\ metrics[m] # NoMetric
                /\ metrics[m].stage = metric_stage_key
                /\ metrics[m].department = GroupDepartment(user_group)
             raw_progress ==
                RawProgress(project.values[m], default_threshold[m])
             item ==
                [label |-> m,
                 factor |-> metric_weights[m][user_group].factor,
                 raw_value |-> project.values[m],
                 threshold |-> default_threshold[m],
                 capped_progress |-> CappedProgress(raw_progress),
                 display_percentage |-> FTrunc(FMul(raw_progress, Rat(100)))]
         IN  (IF selected /\ Weighted(m, user_group) THEN <<item>> ELSE <<>>)
             \o TempList(project, user_group, metric_stage_key, m + 1)

RECURSIVE SumFactors(_)
SumFactors(items) ==
    IF items = <<>> THEN 0 ELSE Head(items).factor + SumFactors(Tail(items))

\* (item['factor'] / total_factor_sum * 100) if total_factor_sum > 0 else 0
TargetPct(factor, total_factor_sum) ==
    IF total_factor_sum > 0 THEN Norm(factor * 100, total_factor_sum)
    ELSE Rat(0)

Points(item, total_factor_sum) ==
    FMul(item.capped_progress, TargetPct(item.factor, total_factor_sum))

RECURSIVE EarnedScoreTotal(_, _)
EarnedScoreTotal(items, total_factor_sum) ==
    IF items = <<>> THEN Rat(0)
    ELSE FAdd(Points(Head(items), total_factor_sum),
              EarnedScoreTotal(Tail(items), total_factor_sum))

FinalScore(item, total_factor_sum) ==
    [metric |-> item.label, factor |-> item.factor,
     actual |-> item.raw_value, target |-> item.threshold,
     target_percent |-> Round1(TargetPct(item.factor, total_factor_sum)),
     status_text |-> item.display_percentage,
     points_earned |-> Round1(Points(item, total_factor_sum))]

\* list.sort(key=lambda x: x['factor'], reverse=True): stable
RECURSIVE InsertByFactor(_, _)
InsertByFactor(row, sorted) ==
    IF sorted = <<>> THEN <<row>>
    ELSE IF Head(sorted).factor >= row.factor
         THEN <<Head(sorted)>> \o InsertByFactor(row, Tail(sorted))
         ELSE <<row>> \o sorted

RECURSIVE SortByFactor(_)
SortByFactor(rows) ==
    IF rows = <<>> THEN <<>>
    ELSE InsertByFactor(rows[Len(rows)],
                        SortByFactor(SubSeq(rows, 1, Len(rows) - 1)))

ScorecardResponse(project, raw_role_param) ==
    LET search_term == SearchTerm(raw_role_param)
        user_group == FindUserGroup(search_term)
        metric_stage_key == MetricStageKey(project.stage)
        temp_list == TempList(project, user_group, metric_stage_key, 1)
        total_factor_sum == SumFactors(temp_list)
        earned_score_total == EarnedScoreTotal(temp_list, total_factor_sum)
    IN  IF user_group = 0
        THEN [project |-> project.project_code, error |-> "Role not found",
              selected_role_full |-> raw_role_param]
        ELSE [project |-> project.project_code,
              user_group |-> user_group,
              total_factor |-> total_factor_sum,
              scores |-> SortByFactor(
                  [i \in 1..Len(temp_list) |->
                      FinalScore(temp_list[i], total_factor_sum)]),
              project_total |-> Round1(earned_score_total),
              project_total_int |-> RoundHalfEven(earned_score_total),
              metric_stage |-> metric_stage_key,
              \* locals of the view, kept for the properties
              raw_role_param |-> raw_role_param,
              temp_list |-> temp_list,
              earned_score_total |-> earned_score_total]

\* GET scorecard/<project_code>/?metric_role=<raw_role_param>
ProjectScorecardView(project_code, raw_role_param) ==
    /\ scorecard' =
            IF ProjectsWithCode(project_code) = {}
            THEN [status |-> 404]
            ELSE ScorecardResponse(
                    projects[CHOOSE i \in ProjectsWithCode(project_code) :
                        \A j \in ProjectsWithCode(project_code) : i <= j],
                    raw_role_param)
    /\ UNCHANGED <<metrics, lastRebalance, default_threshold, metric_weights,
                   projects, leaderboard, upload, uploading, reader,
                   requests>>

\* the tables the admin's rebalancer neither reads nor writes, empty
NoScoring ==
    /\ default_threshold = [m \in MetricIds |-> 0]
    /\ metric_weights = [m \in MetricIds |-> [g \in GroupIds |-> NoWeight]]
    /\ scorecard = NoResponse
    /\ leaderboard = NoResponse

InitAdmin ==
    /\ metrics = [m \in MetricIds |-> NoMetric]
    /\ lastRebalance = 0
    /\ NoScoring
    /\ projects = <<>>
    /\ upload = NoResponse
    /\ uploading = NoUpload
    /\ reader = NoResponse
    /\ requests = NoRequests

NextAdmin == \E m \in MetricIds : \E row \in FormRows(m) : SaveRelated(m, row)

(***************************************************************************)
(* IEEE-754 binary64 arithmetic where the code's result depends on it. A   *)
(* float is [mant, exp] of value mant * 2^exp; mant, its 53 significand    *)
(* bits, is kept in three limbs <<a, b, c>> of 13, 20 and 20 bits:         *)
(* mant = a * 2^40 + b * 2^20 + c.                                         *)
(***************************************************************************)
Limb == 1048576         \* 2^20
TopLimb == 8192         \* 2^13

RECURSIVE Pow2(_)
Pow2(e) == IF e = 0 THEN 1 ELSE 2 * Pow2(e - 1)

\* the least s with k * 2^s >= n
RECURSIVE ShiftTo(_, _)
ShiftTo(k, n) == IF k >= n THEN 0 ELSE 1 + ShiftTo(2 * k, n)

\* the significand plus one
Increment(mant) ==
    IF mant[3] + 1 < Limb THEN <<mant[1], mant[2], mant[3] + 1>>
    ELSE IF mant[2] + 1 < Limb THEN <<mant[1], mant[2] + 1, 0>>
    ELSE <<mant[1] + 1, 0, 0>>

\* the significand rounded up or kept; 2^53 renormalised to 2^52 * 2
Rounded(mant, exp, round_up) ==
    LET up == IF round_up THEN Increment(mant) ELSE mant
    IN  IF up[1] >= TopLimb
        THEN [mant |-> <<up[1] \div 2, 0, 0>>, exp |-> exp + 1]
        ELSE [mant |-> up, exp |-> exp]

\* k / n for integers 1 <= k <= n <= 2^12, rounded to nearest, ties to even
FloatDivide(k, n) ==
    LET s == ShiftTo(k, n)
        scaled == k * Pow2(s)
        a == (scaled * 4096) \div n
        r1 == (scaled * 4096) % n
        b == (r1 * Limb) \div n
        r2 == (r1 * Limb) % n
        c == (r2 * Limb) \div n
        r3 == (r2 * Limb) % n
        round_up == 2 * r3 > n \/ (2 * r3 = n /\ c % 2 = 1)
    IN  Rounded(<<a, b, c>>, 0 - s - 52, round_up)

\* x * f for an integer 1 <= f < 2^7, rounded to nearest, ties to even
FloatTimes(x, f) ==
    LET pc == x.mant[3] * f
        pb == x.mant[2] * f + (pc \div Limb)
        top == x.mant[1] * f + (pb \div Limb)
        mid == pb % Limb
        low == pc % Limb
        \* the product is top * 2^40 + mid * 2^20 + low; drop its low bits
        drop == ShiftTo(1, (top \div TopLimb) + 1)
        d == Pow2(drop)
        a == top \div d
        b == (mid \div d) + (top % d) * (Limb \div d)
        c == (low \div d) + (mid % d) * (Limb \div d)
        tail == low % d
        round_up == drop > 0 /\ (2 * tail > d \/ (2 * tail = d /\ c % 2 = 1))
    IN  Rounded(<<a, b, c>>, x.exp + drop, round_up)

\* int(x) for a float 0 <= x < 2^13
FloatToInt(x) ==
    IF 0 - x.exp >= 53 THEN 0
    ELSE x.mant[1] \div Pow2(0 - x.exp - 40)

(***************************************************************************)
(* core/views.py: leaderboard_view                                         *)
(***************************************************************************)
\* the supported roles and the Project field holding each role's person
ROLE_CONFIG ==
    {[role |-> <<"S", "a", "l", "e", "s", " ", "L", "e", "a", "d">>,
      field |-> "sales_lead"],
     [role |-> <<"S", "a", "l", "e", "s", " ", "H", "e", "a", "d">>,
      field |-> "sales_head"],
     [role |-> <<"I", "D">>,
      field |-> "design_id"],
     [role |-> <<"3", "D">>,
      field |-> "design_3d"],
     [role |-> <<"D", "M">>,
      field |-> "design_dm"],
     [role |-> <<"D", "H">>,
      field |-> "design_dh"],
     [role |-> <<"C", "l", "u", "s", "t", "e", "r", "/", "B", "U", " ", "H", "e", "a", "d">>,
      field |-> "ops_head"],
     [role |-> <<"S", "P", "M", "/", "P", "M">>,
      field |-> "ops_pm"],
     [role |-> <<"S", "O", "M", "/", "O", "M">>,
      field |-> "ops_om"],
     [role |-> <<"S", "S">>,
      field |-> "ops_ss"],
     [role |-> <<"M", "E", "P">>,
      field |-> "ops_mep"],
     [role |-> <<"C", "S", "C">>,
      field |-> "ops_csc"]}

RoleFields == {c.field : c \in ROLE_CONFIG}

\* ROLE_CONFIG.get(simple_role_name): the entries found, none or one
RoleConfig(simple_role_name) == {c \in ROLE_CONFIG : c.role = simple_role_name}

TestProjectCode == <<"P", "S", "-", "0", "2", "A", "U", "G", "2", "3", "-", "B", "B", "1", "_", "T", "E", "S", "T", "-", "S", "O", "M", "E", "R", "S", "E", "T", "-", "0", "1">>

LeaderboardStageWords == {<<"p", "o", "s", "t">>, <<"e", "x", "e", "c">>, <<"o", "p", "s">>, <<"h", "a", "n", "d", "o", "v", "e", "r">>}

\* 'Post' if any(x in raw_stage for x in ['post', 'exec', 'ops', 'handover']) else 'Pre'
CurrentStage(stage) ==
    LET raw_stage == Lower(Strip(stage))
    IN  IF \E x \in LeaderboardStageWords : Contains(raw_stage, x)
        THEN "Post" ELSE "Pre"

\* login_date__range / start_date__range; 0 is a NULL date
InRange(date, start_dt, end_dt) ==
    date # 0 /\ start_dt <= date /\ date <= end_dt

\* the project query with the date filter on login_date alone
EligibleByLoginDate(proj, project_field, sbu_filter, start_dt, end_dt) ==
    /\ proj.sbu \in sbu_filter
    /\ proj.people[project_field] # <<>>
    /\ proj.project_code # <<>>
    /\ proj.project_code # TestProjectCode
    /\ InRange(proj.login_date, start_dt, end_dt)

\* the filters and excludes of the project query
Eligible(proj, project_field, sbu_filter, start_dt, end_dt) ==
    /\ proj.sbu \in sbu_filter
    /\ proj.people[project_field] # <<>>
    /\ proj.project_code # <<>>
    /\ proj.project_code # TestProjectCode
    /\ \/ InRange(proj.login_date, start_dt, end_dt)
       \/ InRange(proj.start_date, start_dt, end_dt)

\* Metric.objects.filter(metricweight__user_group=user_group,
\* metricweight__factor__gt=0), each kept when its first weight is > 0
ValidMetrics(user_group) ==
    {m \in MetricIds : metrics[m] # NoMetric /\ Weighted(m, user_group)}

RECURSIVE SumValidFactors(_, _)
SumValidFactors(S, user_group) ==
    IF S = {} THEN 0
    ELSE LET m == CHOOSE x \in S : TRUE
         IN  metric_weights[m][user_group].factor
             + SumValidFactors(S \ {m}, user_group)

\* stage_totals.get(stage, 0)
StageTotals(user_group) ==
    [st \in Stages |->
        SumValidFactors({m \in ValidMetrics(user_group) :
                            metrics[m].stage = st}, user_group)]

\* the loop over valid_metrics, from metric m on
RECURSIVE ProjectScoreFrom(_, _, _, _, _)
ProjectScoreFrom(proj, user_group, current_stage, total_possible, m) ==
    IF m > NumMetrics THEN Rat(0)
    ELSE LET raw_progress ==
                RawProgress(proj.values[m], default_threshold[m])
             capped_progress == FMin(raw_progress, Rat(1))
             earned ==
                FMul(capped_progress,
                     Norm(metric_weights[m][user_group].factor * 100,
                          total_possible))
             rest == ProjectScoreFrom(proj, user_group, current_stage,
                                      total_possible, m + 1)
         IN  IF m \in ValidMetrics(user_group)
                /\ metrics[m].stage = current_stage
             THEN FAdd(earned, rest) ELSE rest

\* round(project_score, 1)
ProjectScore(proj, user_group) ==
    LET current_stage == CurrentStage(proj.stage)
        total_possible == StageTotals(user_group)[current_stage]
    IN  IF total_possible > 0
        THEN Round1(ProjectScoreFrom(proj, user_group, current_stage,
                                     total_possible, 1))
        ELSE Rat(0)

\* leaderboard[user_key]: the place of the person's entry, 0 when absent
EntryOf(board, user_key) ==
    IF \E i \in 1..Len(board) : board[i].user_key = user_key
    THEN CHOOSE i \in 1..Len(board) : board[i].user_key = user_key
    ELSE 0

\* the loop body with the person's attribute as typed for the key
AddProjectByName(board, proj, project_field, user_group) ==
    LET user_email == proj.people[project_field]
        user_key == user_email
        record == [code |-> proj.project_code,
                   stage |-> CurrentStage(proj.stage),
                   sbu |-> proj.sbu,
                   score |-> ProjectScore(proj, user_group)]
        at == EntryOf(board, user_key)
    IN  IF Strip(proj.project_code) = <<>> \/ user_email = <<>> THEN board
        ELSE IF at = 0
        THEN Append(board,
                [user_key |-> user_key, name |-> user_email,
                 total_score |-> record.score, projects |-> 1,
                 breakdown |-> <<record>>])
        ELSE [board EXCEPT
                ![at].total_score = FAdd(@, record.score),
                ![at].projects = @ + 1,
                ![at].breakdown = Append(@, record)]

\* the loop body passing over a project whose stage has no weighted metric
AddProjectSkipUnscored(board, proj, project_field, user_group) ==
    LET user_email == proj.people[project_field]
        user_key == Lower(Strip(user_email))
        record == [code |-> proj.project_code,
                   stage |-> CurrentStage(proj.stage),
                   sbu |-> proj.sbu,
                   score |-> ProjectScore(proj, user_group)]
        at == EntryOf(board, user_key)
    IN  IF Strip(proj.project_code) = <<>> \/ user_email = <<>>
           \/ StageTotals(user_group)[CurrentStage(proj.stage)] = 0
        THEN board
        ELSE IF at = 0
        THEN Append(board,
                [user_key |-> user_key, name |-> user_email,
                 total_score |-> record.score, projects |-> 1,
                 breakdown |-> <<record>>])
        ELSE [board EXCEPT
                ![at].total_score = FAdd(@, record.score),
                ![at].projects = @ + 1,
                ![at].breakdown = Append(@, record)]

\* one project of the scoring loop, added to the entries in insertion order
AddProject(board, proj, project_field, user_group) ==
    LET user_email == proj.people[project_field]
        user_key == Lower(Strip(user_email))
        record == [code |-> proj.project_code,
                   stage |-> CurrentStage(proj.stage),
                   sbu |-> proj.sbu,
                   score |-> ProjectScore(proj, user_group)]
        at == EntryOf(board, user_key)
    IN  IF Strip(proj.project_code) = <<>> \/ user_email = <<>> THEN board
        ELSE IF at = 0
        THEN Append(board,
                [user_key |-> user_key, name |-> user_email,
                 total_score |-> record.score, projects |-> 1,
                 breakdown |-> <<record>>])
        ELSE [board EXCEPT
                ![at].total_score = FAdd(@, record.score),
                ![at].projects = @ + 1,
                ![at].breakdown = Append(@, record)]

\* the scoring loop over the projects, in their order: the first half of
\* them, then, from the entries that leaves, the second half (the loop only
\* adds entries)
RECURSIVE ScoreProjects(_, _, _, _)
ScoreProjects(board, projs, project_field, user_group) ==
    IF projs = <<>> THEN board
    ELSE IF Len(projs) = 1
    THEN AddProject(board, projs[1], project_field, user_group)
    ELSE LET half == Len(projs) \div 2
             first == ScoreProjects(board, SubSeq(projs, 1, half),
                                    project_field, user_group)
         IN  IF Len(first) >= Len(board)
             THEN ScoreProjects(first, SubSeq(projs, half + 1, Len(projs)),
                                project_field, user_group)
             ELSE first

\* sorted(..., key=total_score, reverse=True) and
\* breakdown.sort(key=score, reverse=True): stable, by a rational key
\* a sort that puts row, which comes after the rows of sorted, ahead of the
\* rows of the same key
InsertDescendingAheadOfTies(row, sorted, key) ==
    LET ahead == Cardinality({i \in 1..Len(sorted) :
                                FLt(row[key], sorted[i][key])})
    IN  SubSeq(sorted, 1, ahead) \o <<row>>
        \o SubSeq(sorted, ahead + 1, Len(sorted))

\* a stable sort keeps row, which comes after the rows of sorted, behind
\* every row whose key is not smaller
InsertDescending(row, sorted, key) ==
    LET ahead == Cardinality({i \in 1..Len(sorted) :
                                FLe(row[key], sorted[i][key])})
    IN  SubSeq(sorted, 1, ahead) \o <<row>>
        \o SubSeq(sorted, ahead + 1, Len(sorted))

\* the rows inserted one by one, in their order, into sorted: the first
\* half of them, then, into what that gives, the second half
RECURSIVE SortInto(_, _, _)
SortInto(sorted, rows, key) ==
    IF rows = <<>> THEN sorted
    ELSE IF Len(rows) = 1 THEN InsertDescending(rows[1], sorted, key)
    ELSE LET half == Len(rows) \div 2
             first == SortInto(sorted, SubSeq(rows, 1, half), key)
         IN  IF Len(first) = Len(sorted) + half
             THEN SortInto(first, SubSeq(rows, half + 1, Len(rows)), key)
             ELSE first

SortDescending(rows, key) == SortInto(<<>>, rows, key)

\* int((people_beaten / total_users) * 100), in floating point
PercentileOf(people_beaten, total_users) ==
    FloatToInt(FloatTimes(FloatDivide(people_beaten, total_users), 100))

\* the percentile of a person of the given total_score
Percentile(board, total_score) ==
    LET people_beaten ==
            Cardinality({i \in 1..Len(board) :
                            FLe(board[i].total_score, total_score)})
    IN  IF Len(board) > 0
        THEN PercentileOf(people_beaten, Len(board))
        ELSE 0

\* the post-processing of the entries: rank, sorted breakdown, percentile
Ranked(board) ==
    LET sorted_leaderboard == SortDescending(board, "total_score")
    IN  [idx \in 1..Len(sorted_leaderboard) |->
            LET row == sorted_leaderboard[idx]
            IN  [user_key |-> row.user_key, name |-> row.name,
                 projects |-> row.projects,
                 rank |-> idx,
                 breakdown |-> SortDescending(row.breakdown, "score"),
                 percentile |-> Percentile(board, row.total_score),
                 total_score |-> Round1(row.total_score)]]

\* projects.filter(...) in primary-key order
EligibleProjects(projs, project_field, sbu_filter, start_dt, end_dt) ==
    SelectSeq(projs,
              LAMBDA proj : Eligible(proj, project_field, sbu_filter,
                                     start_dt, end_dt))

\* the SBU options: the distinct non-empty sbu values of the Project table,
\* or the four defaults when there are none
AllSbuOptions ==
    LET found == {projects[i].sbu : i \in 1..Len(projects)} \ {""}
    IN  IF found = {} THEN {"North", "South", "East", "Central"} ELSE found

LeaderboardResponse(selected_role_name, sbu_filter, start_dt, end_dt) ==
    LET simple_role_name == SplitLast(selected_role_name, <<" ", "-", " ">>)
        config == RoleConfig(simple_role_name)
        project_field == (CHOOSE c \in config : TRUE).field
        user_group == FindUserGroup(simple_role_name)
        eligible == EligibleProjects(projects, project_field, sbu_filter,
                               start_dt, end_dt)
        board == ScoreProjects(<<>>, eligible, project_field, user_group)
    IN  IF config = {}
        THEN [error |-> "Role not supported", role |-> selected_role_name]
        ELSE IF user_group = 0
        THEN [error |-> "User Group not found", role |-> selected_role_name]
        ELSE [leaderboard |-> Ranked(board),
              selected_role |-> selected_role_name,
              selected_sbus |-> sbu_filter,
              start_date |-> start_dt,
              end_date |-> end_dt,
              \* locals of the view, kept for the properties
              user_group |-> user_group,
              stage_totals |-> StageTotals(user_group)]

\* GET leaderboard/?role=...&start=...&end=...[&sbu=...]; sbus = {} stands
\* for a request without the sbu parameter
LeaderboardView(selected_role_name, sbus, start_dt, end_dt) ==
    /\ leaderboard' =
            LeaderboardResponse(selected_role_name,
                                IF sbus = {} THEN AllSbuOptions ELSE sbus,
                                start_dt, end_dt)
    /\ UNCHANGED <<metrics, lastRebalance, default_threshold, metric_weights,
                   projects, scorecard, upload, uploading, reader,
                   requests>>

(***************************************************************************)
(* The scorecard over a configuration drawn from bounded sets: one project *)
(* and the weights of the first user group.                                *)
(***************************************************************************)
\* the Metric rows the views read: stage and department
ScoredMetric(department, stage) ==
    [department |-> department, stage |-> stage, visible_to_groups |-> {},
     is_manual_credit |-> FALSE, credit_weight |-> Rat(0)]

\* nobody in any role-owner field
Nobody == [f \in RoleFields |-> <<>>]

\* a Project row: people holds the role-owner fields ('' and NULL are both
\* <<>>), values the numeric field of each metric, a date 0 is NULL
ProjectRow(code, stage, sbu, people, login_date, start_date, values) ==
    [project_code |-> code, stage |-> stage, sbu |-> sbu, people |-> people,
     login_date |-> login_date, start_date |-> start_date, values |-> values]

ThresholdChoices(m) == IF m = 1 THEN {10} ELSE {0, 10, 20}
RawChoices(m) == IF m = 1 THEN {10} ELSE {-5, 0, 10, 30}
FactorChoices(m) ==
    IF m = 1 THEN {NoWeight, [factor |-> -10], [factor |-> 0], [factor |-> 40]}
    ELSE {[factor |-> 0], [factor |-> 40], [factor |-> 60]}

CodeP1 == <<"P", "1">>
CodeP2 == <<"P", "2">>
StageInitialLogin == <<"I", "n", "i", "t", "i", "a", "l", " ", "L", "o", "g", "i", "n">>
StagePostHandoverReview == <<"P", "o", "s", "t", "-", "H", "a", "n", "d", "o", "v", "e", "r", " ", "R", "e", "v", "i", "e", "w">>
RoleDesignID == <<"D", "e", "s", "i", "g", "n", " ", "-", " ", "I", "D">>
RoleCEO == <<"C", "E", "O">>
RoleDM == <<"D", "M">>

InitScore ==
    /\ lastRebalance = 0
    /\ upload = NoResponse
    /\ uploading = NoUpload
    /\ reader = NoResponse
    /\ requests = NoRequests
    /\ scorecard = NoResponse
    /\ leaderboard = NoResponse
    /\ \E st \in [MetricIds -> Stages] :
            /\ \A m \in MetricIds : st[m] \in StageChoices(m)
            /\ metrics = [m \in MetricIds |-> ScoredMetric(1, st[m])]
    /\ \E th \in [MetricIds -> {0, 10, 20}] :
            /\ \A m \in MetricIds : th[m] \in ThresholdChoices(m)
            /\ default_threshold = th
    /\ \E w \in [MetricIds ->
                    {NoWeight, [factor |-> -10], [factor |-> 0],
                     [factor |-> 40], [factor |-> 60]}] :
            /\ \A m \in MetricIds : w[m] \in FactorChoices(m)
            /\ metric_weights =
                    [m \in MetricIds |->
                        [g \in GroupIds |-> IF g = 1 THEN w[m] ELSE NoWeight]]
    /\ \E v \in [MetricIds -> {-5, 0, 10, 30}],
           stage \in {StageInitialLogin, StagePostHandoverReview} :
            /\ \A m \in MetricIds : v[m] \in RawChoices(m)
            /\ projects =
                <<ProjectRow(CodeP1, stage, "North",
                             [Nobody EXCEPT !["design_id"] = <<"A", "n", "n">>],
                             5, 0, v)>>

NextScore ==
    \/ \E project_code \in {CodeP1, CodeP2},
          raw_role_param \in {RoleDesignID, RoleCEO} :
            ProjectScorecardView(project_code, raw_role_param)
    \/ LeaderboardView(RoleDesignID, {}, 1, 9)

(***************************************************************************)
(* core/views.py: upload_view                                              *)
(***************************************************************************)
\* the identifier columns get_clean_id checks, in its order
IdColumns == <<"project code", "code", "lead id">>

\* s.replace(old, ''): every occurrence of old removed, left to right
RECURSIVE Remove(_, _)
Remove(s, old) ==
    IF Occurrences(s, old) = {} THEN s
    ELSE LET i == CHOOSE x \in Occurrences(s, old) :
                    \A y \in Occurrences(s, old) : x <= y
         IN  SubSeq(s, 1, i - 1) \o Remove(SubSeq(s, i + Len(old), Len(s)), old)

\* get_clean_id, from column c on; a cell is the text str() gives, <<>> for
\* a column the sheet does not have or an empty cell; <<>>: None
RECURSIVE GetCleanIdFrom(_, _)
GetCleanIdFrom(row, c) ==
    IF c > Len(IdColumns) THEN <<>>
    ELSE LET v == Upper(Strip(row[IdColumns[c]]))
         IN  IF row[IdColumns[c]] # <<>> /\ v # <<>> /\ v # <<"N", "A", "N">>
             THEN Remove(v, <<".", "0">>)
             ELSE GetCleanIdFrom(row, c + 1)

GetCleanId(row) == GetCleanIdFrom(row, 1)

\* clean_str of a cell's text
CleanStr(val) ==
    IF Lower(Strip(val)) = <<"n", "a", "n">> THEN <<>> ELSE Strip(val)

\* the place of p_id in project_data_map, 0 when absent
PlaceOf(project_data_map, p_id) ==
    IF \E i \in 1..Len(project_data_map) :
            project_data_map[i].project_code = p_id
    THEN CHOOSE i \in 1..Len(project_data_map) :
            project_data_map[i].project_code = p_id
    ELSE 0

\* process_sheet's row step without the test p_id not in project_data_map:
\* an entry per row
ProcessRowNoMerge(project_data_map, row) ==
    LET p_id == GetCleanId(row)
    IN  IF p_id = <<>> THEN project_data_map
        ELSE Append(project_data_map,
                    [project_code |-> p_id, stage |-> CleanStr(row.stage)])

\* process_sheet's row step without the test if not p_id: continue
ProcessRowNoSkip(project_data_map, row) ==
    LET p_id == GetCleanId(row)
        at == PlaceOf(project_data_map, p_id)
        val == CleanStr(row.stage)
    IN  IF at = 0
        THEN Append(project_data_map, [project_code |-> p_id, stage |-> val])
        ELSE IF val # <<>>
        THEN [project_data_map EXCEPT ![at].stage = val]
        ELSE project_data_map

\* one row of process_sheet's loop over the rows
ProcessRow(project_data_map, row) ==
    LET p_id == GetCleanId(row)
        at == PlaceOf(project_data_map, p_id)
        val == CleanStr(row.stage)
    IN  IF p_id = <<>> THEN project_data_map
        ELSE IF at = 0
        THEN Append(project_data_map, [project_code |-> p_id, stage |-> val])
        ELSE IF val # <<>>
        THEN [project_data_map EXCEPT ![at].stage = val]
        ELSE project_data_map

\* process_sheet over the rows of the sales, design and operation sheets
RECURSIVE ProcessSheets(_, _)
ProcessSheets(project_data_map, rows) ==
    IF rows = <<>> THEN project_data_map
    ELSE ProcessSheets(ProcessRow(project_data_map, Head(rows)), Tail(rows))

\* [Project(**d) for d in project_data_map.values()]
NewProjects(project_data_map) ==
    [i \in 1..Len(project_data_map) |->
        ProjectRow(project_data_map[i].project_code,
                   project_data_map[i].stage, "", Nobody, 0, 0,
                   [m \in MetricIds |-> 0])]

\* the project codes of a workbook: the identifiers its rows resolve to
FileCodes(file) ==
    {GetCleanId(file.rows[i]) : i \in 1..Len(file.rows)} \ {<<>>}

\* POST upload/ with a valid form. readable: pandas can read the workbook;
\* insert_fails: building or inserting the new rows raises. The delete is
\* committed on its own: nothing in the view opens a transaction.
UploadView(file, insert_fails) ==
    LET project_data_map == ProcessSheets(<<>>, file.rows)
    IN  /\ \/ /\ ~file.readable
              /\ projects' = projects
              /\ upload' = [level |-> "error", message |-> "Upload Failed",
                            before |-> projects,
                            readable |-> file.readable,
                            file_codes |-> FileCodes(file)]
           \/ /\ file.readable
              /\ project_data_map = <<>>
              /\ projects' = projects
              /\ upload' = [level |-> "error",
                            message |-> "No valid project data found in file.",
                            before |-> projects,
                            readable |-> file.readable,
                            file_codes |-> FileCodes(file)]
           \/ /\ file.readable
              /\ project_data_map # <<>>
              /\ insert_fails
              /\ projects' = <<>>
              /\ upload' = [level |-> "error", message |-> "Upload Failed",
                            before |-> projects,
                            readable |-> file.readable,
                            file_codes |-> FileCodes(file)]
           \/ /\ file.readable
              /\ project_data_map # <<>>
              /\ ~insert_fails
              /\ projects' = NewProjects(project_data_map)
              /\ upload' = [level |-> "success", message |-> "Restored",
                            restored |-> Len(project_data_map),
                            before |-> projects,
                            \* the file, kept for the properties
                            readable |-> file.readable,
                            file_codes |-> FileCodes(file),
                            file_rows |-> Len(file.rows)]
        /\ UNCHANGED <<metrics, lastRebalance, default_threshold,
                       metric_weights, scorecard, leaderboard,
                       uploading, reader, requests>>

(***************************************************************************)
(* Uploads of small workbooks into an empty Project table.                 *)
(***************************************************************************)
MaxRows == 2

\* the rows of a workbook: a 'project code' cell, a 'lead id' cell and a
\* 'stage' cell
FileRows ==
    {[c \in {"project code", "code", "lead id", "stage"} |->
        IF c = "project code" THEN pc
        ELSE IF c = "lead id" THEN li
        ELSE IF c = "stage" THEN st
        ELSE <<>>] :
        st \in {<<"D", "e", "s", "i", "g", "n">>, <<>>},
        pc \in {<<"P", "1">>, <<" ", "p", "2">>, <<"n", "a", "n">>, <<>>},
        li \in {<<>>, <<"1", "0", "1", ".", "0">>}}

RECURSIVE RowSeqs(_)
RowSeqs(n) ==
    IF n = 0 THEN {<<>>}
    ELSE RowSeqs(n - 1)
         \cup {Append(rs, r) : rs \in {q \in RowSeqs(n - 1) : Len(q) = n - 1},
                               r \in FileRows}

Files == [readable : BOOLEAN, rows : RowSeqs(MaxRows)]

InitUpload ==
    /\ metrics = [m \in MetricIds |-> NoMetric]
    /\ lastRebalance = 0
    /\ NoScoring
    /\ projects = <<>>
    /\ upload = NoResponse
    /\ uploading = NoUpload
    /\ reader = NoResponse
    /\ requests = NoRequests

NextUpload ==
    \E file \in Files, insert_fails \in BOOLEAN : UploadView(file, insert_fails)

(***************************************************************************)
(* upload_view in its two committed writes, with readers of the Project    *)
(* table running between them. Each ORM statement commits on its own.      *)
(***************************************************************************)
\* the delete inside one transaction with the insert: readers still see the
\* old rows until the insert commits
UploadDeleteInTransaction(file) ==
    LET project_data_map == ProcessSheets(<<>>, file.rows)
    IN  /\ uploading = NoUpload
        /\ file.readable
        /\ project_data_map # <<>>
        /\ projects' = projects
        /\ uploading' = [project_data_map |-> project_data_map,
                         before |-> projects]
        /\ UNCHANGED <<metrics, lastRebalance, default_threshold,
                       metric_weights, scorecard, leaderboard, upload, reader,
                   requests>>

\* upload_view up to and including Project.objects.all().delete()
UploadDelete(file) ==
    LET project_data_map == ProcessSheets(<<>>, file.rows)
    IN  /\ uploading = NoUpload
        /\ file.readable
        /\ project_data_map # <<>>
        /\ projects' = <<>>
        /\ uploading' = [project_data_map |-> project_data_map,
                         before |-> projects]
        /\ UNCHANGED <<metrics, lastRebalance, default_threshold,
                       metric_weights, scorecard, leaderboard, upload, reader,
                   requests>>

\* upload_view from Project.objects.bulk_create(...) to its response
UploadBulkCreate(insert_fails) ==
    /\ uploading # NoUpload
    /\ IF insert_fails
       THEN /\ projects' = projects
            /\ upload' = [level |-> "error", message |-> "Upload Failed",
                          before |-> uploading.before]
       ELSE /\ projects' = NewProjects(uploading.project_data_map)
            /\ upload' = [level |-> "success", message |-> "Restored",
                          restored |-> Len(uploading.project_data_map),
                          before |-> uploading.before]
    /\ uploading' = NoUpload
    /\ UNCHANGED <<metrics, lastRebalance, default_threshold, metric_weights,
                   scorecard, leaderboard, reader, requests>>

\* a reader's query of the Project table, as get_object_or_404(Project,
\* project_code=...) of the scorecard: what it found, and whether an upload
\* was between its two writes
ReadProject(project_code) ==
    /\ reader' = [project_code |-> project_code,
                  found |-> ProjectsWithCode(project_code) # {},
                  during_upload |-> uploading # NoUpload]
    /\ UNCHANGED <<metrics, lastRebalance, default_threshold, metric_weights,
                   projects, scorecard, leaderboard, upload, uploading,
                   requests>>

\* the workbooks of one row
OneRowFiles == {file \in Files : file.readable /\ Len(file.rows) = 1}

\* the project codes the rows of OneRowFiles resolve to
ReadCodes == {<<"P", "1">>, <<"P", "2">>, <<"1", "0", "1">>}

InitReaders == InitUpload

NextReaders ==
    \/ \E file \in OneRowFiles : UploadDelete(file)
    \/ \E insert_fails \in BOOLEAN : UploadBulkCreate(insert_fails)
    \/ \E project_code \in ReadCodes : ReadProject(project_code)

(***************************************************************************)
(* Two uploads running at the same time: each is upload_view in its two    *)
(* committed writes, the delete of every row and the insert of its own.    *)
(***************************************************************************)
\* the project codes of a project_data_map
CodesOfMap(project_data_map) ==
    {project_data_map[i].project_code : i \in 1..Len(project_data_map)}

\* upload_view of client c up to and including Project.objects.all().delete()
UploadDeleteBy(c, file) ==
    LET project_data_map == ProcessSheets(<<>>, file.rows)
    IN  /\ requests[c].pc = "idle"
        /\ file.readable
        /\ project_data_map # <<>>
        /\ projects' = <<>>
        /\ requests' = [requests EXCEPT
                            ![c] = [pc |-> "bulk_create",
                                    project_data_map |-> project_data_map]]
        /\ UNCHANGED <<metrics, lastRebalance, default_threshold,
                       metric_weights, scorecard, leaderboard, upload,
                       uploading, reader>>

\* upload_view of client c from Project.objects.bulk_create(...) to its
\* response: the new rows are added to the rows the table holds by then
UploadBulkCreateBy(c, insert_fails) ==
    /\ requests[c].pc = "bulk_create"
    /\ projects' = IF insert_fails THEN projects
                   ELSE projects \o NewProjects(requests[c].project_data_map)
    /\ requests' = [requests EXCEPT
                        ![c] = [pc |-> "done",
                                level |-> IF insert_fails THEN "error"
                                          ELSE "success",
                                project_data_map |->
                                    requests[c].project_data_map]]
    /\ UNCHANGED <<metrics, lastRebalance, default_threshold, metric_weights,
                   scorecard, leaderboard, upload, uploading, reader>>

InitUploads == InitUpload

\* the project codes of the workbooks of the clients other than c: the two
\* workbooks hold different projects
UploadedByOthers(c) ==
    UNION {CodesOfMap(requests[d].project_data_map) :
            d \in {e \in Clients \ {c} : requests[e].pc # "idle"}}

NextUploads ==
    \E c \in Clients :
        \/ \E file \in {f \in OneRowFiles :
                            FileCodes(f) \cap UploadedByOthers(c) = {}} :
                UploadDeleteBy(c, file)
        \/ \E insert_fails \in BOOLEAN : UploadBulkCreateBy(c, insert_fails)

(***************************************************************************)
(* The leaderboard over Project tables of many people: one metric of the   *)
(* Pre stage, threshold 10, weighted 40 for the first user group; project  *)
(* i belongs to person i and scores 50 or 90.                              *)
(***************************************************************************)
MaxPeople == 50

Digits == <<"0", "1", "2", "3", "4", "5", "6", "7", "8", "9">>

\* the design_id of person i, and the same address as another sheet typed it
PersonName(i) == <<"u", Digits[(i \div 10) + 1], Digits[(i % 10) + 1]>>
PersonNameTyped(i) ==
    <<" ", "U", Digits[(i \div 10) + 1], Digits[(i % 10) + 1], " ">>

ProjectCodeOf(i) == <<"P", Digits[(i \div 10) + 1], Digits[(i % 10) + 1]>>

\* project i of person `owner`, whose value of the metric is raw
RankedProject(i, owner, raw) ==
    ProjectRow(ProjectCodeOf(i), StageInitialLogin, "North",
               [Nobody EXCEPT !["design_id"] = owner], 5, 0,
               [m \in MetricIds |-> IF m = 1 THEN raw ELSE 0])

\* n projects of n people, the first j of them with the value first_raw and
\* the others with other_raw; with second_project, one more project of
\* person 1 under the typed form of the name
RankingTable(n, j, first_raw, other_raw, second_project) ==
    [i \in 1..n |->
        RankedProject(i, PersonName(i), IF i <= j THEN first_raw ELSE other_raw)]
    \o (IF second_project
        THEN <<RankedProject(n + 1, PersonNameTyped(1), 9)>>
        ELSE <<>>)

InitRanking ==
    /\ lastRebalance = 0
    /\ upload = NoResponse
    /\ uploading = NoUpload
    /\ reader = NoResponse
    /\ requests = NoRequests
    /\ scorecard = NoResponse
    /\ leaderboard = NoResponse
    /\ metrics = [m \in MetricIds |-> ScoredMetric(1, "Pre")]
    /\ default_threshold = [m \in MetricIds |-> 10]
    /\ metric_weights =
            [m \in MetricIds |->
                [g \in GroupIds |->
                    IF m = 1 /\ g = 1 THEN [factor |-> 40] ELSE NoWeight]]
    /\ \E n \in 1..MaxPeople, j \in 0..MaxPeople, raws \in {<<5, 9>>, <<9, 5>>},
          second_project \in BOOLEAN :
            /\ j <= n
            /\ projects = RankingTable(n, j, raws[1], raws[2], second_project)

NextRanking == LeaderboardView(RoleDesignID, {}, 1, 9)

(***************************************************************************)
(* The scorecard and the leaderboard over projects drawn from bounded      *)
(* sets: two projects of the role ID, the first with any stage text.       *)
(***************************************************************************)
StageTexts ==
    {StagePostHandoverReview, StageInitialLogin,
     <<"H", "a", "n", "d", "o", "v", "e", "r">>,
     <<"E", "X", "E", "C", "U", "T", "I", "O", "N">>,
     <<" ", "O", "p", "s", " ">>,
     <<"D", "e", "s", "i", "g", "n">>,
     <<"D", "r", "o", "p", "s">>,
     <<"N", "o", "n", "e">>}

PersonAnn == <<"A", "n", "n">>
PersonAnnSpaced == <<" ", "a", "n", "n">>
PersonBob == <<"B", "o", "b">>

InitBoard ==
    /\ lastRebalance = 0
    /\ upload = NoResponse
    /\ uploading = NoUpload
    /\ reader = NoResponse
    /\ requests = NoRequests
    /\ scorecard = NoResponse
    /\ leaderboard = NoResponse
    /\ \E st \in [MetricIds -> Stages] :
            /\ \A m \in MetricIds : st[m] \in StageChoices(m)
            /\ metrics = [m \in MetricIds |-> ScoredMetric(1, st[m])]
    /\ default_threshold = [m \in MetricIds |-> 10]
    /\ \E w \in [MetricIds ->
                    {NoWeight, [factor |-> 0], [factor |-> 40], [factor |-> 60]}] :
            /\ \A m \in MetricIds : w[m] \in FactorChoices(m)
            /\ w[2] # [factor |-> 0]
            /\ metric_weights =
                    [m \in MetricIds |->
                        [g \in GroupIds |-> IF g = 1 THEN w[m] ELSE NoWeight]]
    /\ \E v \in [MetricIds -> {0, 10}], stage \in StageTexts,
           second \in {PersonAnnSpaced, PersonBob} :
            /\ \A m \in MetricIds : m # 2 => v[m] = 10
            /\ projects =
                <<ProjectRow(CodeP1, stage, "North",
                             [Nobody EXCEPT !["design_id"] = PersonAnn],
                             5, 0, v),
                  ProjectRow(CodeP2, StageInitialLogin, "South",
                             [Nobody EXCEPT !["design_id"] = second],
                             0, 5, [m \in MetricIds |-> 10])>>

NextBoard ==
    \/ \E project_code \in {CodeP1, CodeP2} :
            \E raw_role_param \in {RoleDesignID, RoleCEO} :
                ProjectScorecardView(project_code, raw_role_param)
    \/ \E selected_role_name \in {RoleDesignID, RoleCEO, RoleDM},
           sbus \in {{}, {"North"}} :
            LeaderboardView(selected_role_name, sbus, 1, 9)

(***************************************************************************)
(* The leaderboard's project query over one project of any SBU, owner,     *)
(* code and dates, next to a project that is always in range.              *)
(***************************************************************************)
\* the project code upload_view stores for a 'project code' cell of the
\* text ".0 .0": get_clean_id removes both ".0" and leaves the space
BlankCode ==
    GetCleanId([c \in {"project code", "code", "lead id", "stage"} |->
                    IF c = "project code" THEN <<".", "0", " ", ".", "0">>
                    ELSE <<>>])

FilterDates == {0, 5, 12}

InitFilter ==
    /\ lastRebalance = 0
    /\ upload = NoResponse
    /\ uploading = NoUpload
    /\ reader = NoResponse
    /\ requests = NoRequests
    /\ scorecard = NoResponse
    /\ leaderboard = NoResponse
    /\ metrics = [m \in MetricIds |-> ScoredMetric(1, "Pre")]
    /\ default_threshold = [m \in MetricIds |-> 10]
    /\ metric_weights =
            [m \in MetricIds |->
                [g \in GroupIds |->
                    IF m = 1 /\ g = 1 THEN [factor |-> 40] ELSE NoWeight]]
    /\ \E code \in {CodeP1, TestProjectCode, BlankCode},
           sbu \in {"North", "South", ""},
           design_id \in {PersonAnn, <<>>},
           login_date \in FilterDates, start_date \in FilterDates :
            projects =
                <<ProjectRow(code, StageInitialLogin, sbu,
                             [Nobody EXCEPT !["design_id"] = design_id],
                             login_date, start_date, [m \in MetricIds |-> 5]),
                  ProjectRow(CodeP2, StageInitialLogin, "South",
                             [Nobody EXCEPT !["design_id"] = PersonBob],
                             5, 5, [m \in MetricIds |-> 10])>>

NextFilter ==
    \E sbus \in {{}, {"North"}, {"North", "South"}},
       range \in {<<1, 9>>, <<5, 9>>, <<1, 5>>, <<6, 11>>} :
        LeaderboardView(RoleDesignID, sbus, range[1], range[2])

(***************************************************************************)
(* Two operators editing metrics of one bucket at the same time: a manual  *)
(* metric and two auto metrics of the first group, balanced.               *)
(***************************************************************************)
\* the metrics of the bucket, with metric 1 manual at weight w
BalancedBucket(w) ==
    [m \in MetricIds |->
        [department |-> 1, stage |-> "Pre", visible_to_groups |-> {1},
         is_manual_credit |-> (m = 1),
         credit_weight |-> IF m = 1 THEN Rat(w)
                           ELSE NewWeight(Rat(100 - w), NumMetrics - 1)]]

\* the rows the two operators submit: an edit of the weight or of the
\* manual flag of a metric, which stays in the bucket
ConcurrentRows(m) ==
    {row \in FormRows(m) :
        /\ row.department = 1
        /\ row.stage = "Pre"
        /\ row.visible_to_groups = {1}}

\* the metrics of the requests of the clients other than c: the two
\* operators edit different metrics of the bucket
EditedByOthers(c) ==
    {requests[d].current_metric :
        d \in {e \in Clients \ {c} : requests[e].pc # "idle"}}

InitOperators ==
    /\ lastRebalance = 0
    /\ NoScoring
    /\ projects = <<>>
    /\ upload = NoResponse
    /\ uploading = NoUpload
    /\ reader = NoResponse
    /\ requests = NoRequests
    /\ \E w \in EditWeights : metrics = BalancedBucket(w)

NextOperators ==
    \E c \in Clients :
        \/ \E m \in MetricIds \ EditedByOthers(c) :
                \E row \in ConcurrentRows(m) : SaveForm(c, m, row)
        \/ ReadGroups(c)
        \/ ReadManualSum(c)
        \/ CountAutos(c)
        \/ UpdateAutos(c)

vars ==
    <<metrics, lastRebalance, default_threshold, metric_weights, projects,
      scorecard, leaderboard, upload, uploading, reader, requests>>

Init == InitAdmin
Next == NextAdmin
Spec == Init /\ [][Next]_vars

SpecScore == InitScore /\ [][NextScore]_vars

SpecBoard == InitBoard /\ [][NextBoard]_vars

SpecUpload == InitUpload /\ [][NextUpload]_vars

SpecReaders == InitReaders /\ [][NextReaders]_vars

SpecRanking == InitRanking /\ [][NextRanking]_vars

SpecFilter == InitFilter /\ [][NextFilter]_vars

SpecOperators == InitOperators /\ [][NextOperators]_vars

SpecUploads == InitUploads /\ [][NextUploads]_vars

(***************************************************************************)
(* Properties of the rebalancer.                                           *)
(***************************************************************************)
BucketSum(ms, department, stage, group) ==
    SumWeights(ms, TeamMetrics(ms, department, stage, group))

\* rebalance_credits has run its loop: the saved metric has groups
Rebalanced ==
    /\ lastRebalance # 0
    /\ metrics[lastRebalance].visible_to_groups # {}

LastDepartment == metrics[lastRebalance].department
LastStage == metrics[lastRebalance].stage
LastGroups == metrics[lastRebalance].visible_to_groups
\* the bucket the loop processed last
LastGroup == CHOOSE g \in LastGroups : \A h \in LastGroups : h <= g
LastTeam == TeamMetrics(metrics, LastDepartment, LastStage, LastGroup)

\* C1 as stated: after rebalance_credits has run on a bucket with at least
\* one auto metric, the bucket's weights sum to 100, whatever the manual
\* weights in [0,100] are.
C1_SumIs100_AnyManuals ==
    (Rebalanced /\ Autos(metrics, LastTeam) # {}) =>
        /\ \A m \in Manuals(metrics, LastTeam) :
                FLe(Rat(0), metrics[m].credit_weight)
                /\ FLe(metrics[m].credit_weight, Rat(100))
        /\ BucketSum(metrics, LastDepartment, LastStage, LastGroup) = Rat(100)

\* C1 amended: after rebalance_credits has run on a bucket with at least one
\* auto metric and manual weights summing to at most 100, the bucket's
\* manual and auto weights sum to 100.
C1_SumIs100_ManualSumAtMost100 ==
    (/\ Rebalanced
     /\ Autos(metrics, LastTeam) # {}
     /\ FLe(ManualSum(metrics, LastTeam), Rat(100))) =>
        BucketSum(metrics, LastDepartment, LastStage, LastGroup) = Rat(100)

C1_Witness ==
    /\ Rebalanced
    /\ Cardinality(Autos(metrics, LastTeam)) = 3
    /\ BucketSum(metrics, LastDepartment, LastStage, LastGroup) = Rat(100)

\* C2: after rebalance_credits(metric), every bucket of a group the metric is
\* visible to, having at least one auto metric and a manual sum of at most
\* 100, sums to 100, also when metrics are shared between the buckets.
C2_EveryBucketSumsTo100 ==
    Rebalanced =>
        \A g \in LastGroups :
            LET team == TeamMetrics(metrics, LastDepartment, LastStage, g)
            IN  (Autos(metrics, team) # {}
                 /\ FLe(ManualSum(metrics, team), Rat(100))) =>
                    BucketSum(metrics, LastDepartment, LastStage, g) = Rat(100)

\* C3: no credit weight is ever negative, and after rebalance_credits has
\* run on a bucket whose manual weights sum to 100 or more, every auto
\* metric of the bucket has weight 0.
C3_NeverNegative ==
    /\ \A m \in Present(metrics) : FLe(Rat(0), metrics[m].credit_weight)
    /\ (Rebalanced /\ FLe(Rat(100), ManualSum(metrics, LastTeam))) =>
            \A a \in Autos(metrics, LastTeam) :
                metrics[a].credit_weight = Rat(0)

C3_Witness ==
    /\ Rebalanced
    /\ ManualSum(metrics, LastTeam) = Rat(120)
    /\ \E a \in Autos(metrics, LastTeam) : metrics[a].credit_weight = Rat(0)

Balanced(ms, department, stage, group) ==
    /\ Autos(ms, TeamMetrics(ms, department, stage, group)) # {}
    /\ BucketSum(ms, department, stage, group) = Rat(100)

\* C4: running the rebalance on a bucket that already sums to 100 changes no
\* weight, and running rebalance_credits again on the metric it has just run
\* on changes nothing.
C4_Idempotent ==
    /\ \A d \in DepartmentIds, s \in Stages, g \in GroupIds :
            Balanced(metrics, d, s, g) =>
                RebalanceBucket(metrics, d, s, g) = metrics
    /\ Rebalanced => RebalanceCredits(metrics, lastRebalance) = metrics

\* C5: after rebalance_credits has run on a bucket with N >= 1 auto metrics,
\* each of them has weight max(0, (100 - sum of the manual weights) / N);
\* one manual metric of weight 30 and two auto metrics give 35 each.
C5_EqualShare ==
    Rebalanced =>
        LET autos == Autos(metrics, LastTeam)
            pool == FSub(Rat(100), ManualSum(metrics, LastTeam))
            share == FDivInt(pool, Cardinality(autos))
        IN  /\ \A a \in autos :
                    metrics[a].credit_weight =
                        (IF FLe(share, Rat(0)) THEN Rat(0) ELSE share)
            /\ (ManualSum(metrics, LastTeam) = Rat(30)
                 /\ Cardinality(autos) = 2) =>
                    \A a \in autos : metrics[a].credit_weight = Rat(35)

C5_Witness ==
    /\ Rebalanced
    /\ Cardinality(Manuals(metrics, LastTeam)) = 1
    /\ ManualSum(metrics, LastTeam) = Rat(30)
    /\ Cardinality(Autos(metrics, LastTeam)) = 2
    /\ \A a \in Autos(metrics, LastTeam) : metrics[a].credit_weight = Rat(35)

(***************************************************************************)
(* Properties of the scorecard.                                            *)
(***************************************************************************)
\* project_scorecard_view has answered with a computed scorecard
Scored == "project_total" \in DOMAIN scorecard

ScoredProject ==
    projects[CHOOSE i \in 1..Len(projects) :
                projects[i].project_code = scorecard.project]

\* the metrics the scorecard includes: of the scorecard's stage and the
\* group's department, with a weight entry of factor > 0 for the group
IncludedMetrics ==
    {m \in MetricIds :
        /\ metrics[m] # NoMetric
        /\ metrics[m].stage = scorecard.metric_stage
        /\ metrics[m].department = GroupDepartment(scorecard.user_group)
        /\ metric_weights[m][scorecard.user_group] # NoWeight
        /\ metric_weights[m][scorecard.user_group].factor > 0}

FactorOf(m) == metric_weights[m][scorecard.user_group].factor

RECURSIVE SumOfFactors(_)
SumOfFactors(S) ==
    IF S = {} THEN 0
    ELSE LET m == CHOOSE x \in S : TRUE
         IN  FactorOf(m) + SumOfFactors(S \ {m})

\* min(raw_value / threshold, 1) * (factor / total_factor * 100)
ShareEarned(m, total_factor) ==
    LET progress == <<ScoredProject.values[m], default_threshold[m]>>
    IN  FMul(FMin(progress, Rat(1)), <<FactorOf(m) * 100, total_factor>>)

RECURSIVE SumOfShares(_, _)
SumOfShares(S, total_factor) ==
    IF S = {} THEN Rat(0)
    ELSE LET m == CHOOSE x \in S : TRUE
         IN  FAdd(ShareEarned(m, total_factor),
                  SumOfShares(S \ {m}, total_factor))

\* C6: in a computed scorecard every included metric's capped_progress lies
\* in [0,1] and project_total lies in [0,100].
C6_ProgressAndTotalBounded ==
    Scored =>
        /\ \A i \in 1..Len(scorecard.temp_list) :
                /\ FLe(Rat(0), scorecard.temp_list[i].capped_progress)
                /\ FLe(scorecard.temp_list[i].capped_progress, Rat(1))
        /\ FLe(Rat(0), scorecard.project_total)
        /\ FLe(scorecard.project_total, Rat(100))

PositiveThresholds == \A m \in IncludedMetrics : default_threshold[m] > 0

\* C7: for thresholds > 0 the scorecard's total is the sum over the included
\* metrics of min(raw_value/threshold, 1) * (factor / total_factor * 100),
\* total_factor being the sum of the included factors; project_total is
\* that sum as displayed, to one decimal place. A(factor 60, threshold 10,
\* raw 10) and B(factor 40, threshold 20, raw 10) give 80.
C7_TotalIsTheSum ==
    (Scored /\ PositiveThresholds) =>
        /\ scorecard.total_factor = SumOfFactors(IncludedMetrics)
        /\ scorecard.earned_score_total =
                SumOfShares(IncludedMetrics, SumOfFactors(IncludedMetrics))
        /\ scorecard.project_total = Round1(scorecard.earned_score_total)
        /\ (\E a, b \in MetricIds :
                /\ IncludedMetrics = {a, b}
                /\ FactorOf(a) = 60 /\ default_threshold[a] = 10
                /\ ScoredProject.values[a] = 10
                /\ FactorOf(b) = 40 /\ default_threshold[b] = 20
                /\ ScoredProject.values[b] = 10)
            => scorecard.project_total = Rat(80)

C7_Witness ==
    /\ Scored
    /\ \E a, b \in MetricIds :
            /\ IncludedMetrics = {a, b}
            /\ FactorOf(a) = 60 /\ default_threshold[a] = 10
            /\ ScoredProject.values[a] = 10
            /\ FactorOf(b) = 40 /\ default_threshold[b] = 20
            /\ ScoredProject.values[b] = 10
    /\ scorecard.project_total = Rat(80)

(***************************************************************************)
(* Properties of the scorecard and the leaderboard together.               *)
(***************************************************************************)
\* leaderboard_view has answered with a computed leaderboard
Ranking == "leaderboard" \in DOMAIN leaderboard

\* the leaderboard's records of the project the scorecard is about
RecordsOfScoredProject ==
    {rec \in UNION {{row.breakdown[i] : i \in 1..Len(row.breakdown)} :
                row \in {leaderboard.leaderboard[k] :
                            k \in 1..Len(leaderboard.leaderboard)}} :
        rec.code = scorecard.project}

\* C8: for the same project and user group the leaderboard and the
\* scorecard pick the same stage, use the same denominator and give the
\* same score.
C8_LeaderboardAgreesWithScorecard ==
    (Scored /\ Ranking /\ leaderboard.user_group = scorecard.user_group) =>
        \A rec \in RecordsOfScoredProject :
            /\ rec.stage = scorecard.metric_stage
            /\ leaderboard.stage_totals[rec.stage] = scorecard.total_factor
            /\ rec.score = scorecard.project_total

StageWordsOfTheSpec == {<<"p", "o", "s", "t">>, <<"e", "x", "e", "c">>, <<"o", "p", "s">>, <<"h", "a", "n", "d", "o", "v", "e", "r">>}

\* C9: the scorecard's stage is Post exactly when the project's lower-cased,
\* trimmed stage text contains "post", "exec", "ops" or "handover";
\* "Post-Handover Review" gives Post and "Initial Login" gives Pre.
C9_ScorecardStage ==
    Scored =>
        /\ scorecard.metric_stage = "Post" <=>
                \E x \in StageWordsOfTheSpec :
                    Contains(Lower(Strip(ScoredProject.stage)), x)
        /\ scorecard.metric_stage \in {"Pre", "Post"}
        /\ ScoredProject.stage = StagePostHandoverReview =>
                scorecard.metric_stage = "Post"
        /\ ScoredProject.stage = StageInitialLogin =>
                scorecard.metric_stage = "Pre"

(***************************************************************************)
(* Properties of the upload.                                               *)
(***************************************************************************)
\* C10: an upload that ends with the message 'Upload Failed' leaves the
\* Project rows exactly as they were before the upload started.
C10_FailedUploadKeepsProjects ==
    (upload # NoResponse /\ upload.message = "Upload Failed") =>
        projects = upload.before

\* the project codes of a sequence of rows
CodesOf(rows) == {rows[i].project_code : i \in 1..Len(rows)}

\* C11: between the delete-all and the bulk insert of an upload the Project
\* table is empty, whatever it held before and whatever the upload is about
\* to insert, and a reader running there finds no project.
C11_ReaderSeesEmptyTable ==
    /\ uploading # NoUpload =>
            (projects = <<>> /\ uploading.project_data_map # <<>>)
    /\ (reader # NoResponse /\ reader.during_upload) => ~reader.found

\* a reader asked, between the two writes, for a project that was stored
\* before the upload and is in the uploaded file, and did not find it
C11_Witness ==
    /\ uploading # NoUpload
    /\ reader # NoResponse
    /\ reader.during_upload
    /\ ~reader.found
    /\ reader.project_code \in CodesOf(uploading.before)
    /\ reader.project_code \in CodesOf(uploading.project_data_map)
    /\ projects = <<>>

\* C12: after a successful upload the Project table holds exactly one row
\* per distinct project code of the file, and nothing else: rows stored
\* before and absent from the file are gone.
C12_FullReplace ==
    (upload # NoResponse /\ upload.level = "success") =>
        /\ upload.file_codes # {}
        /\ CodesOf(projects) = upload.file_codes
        /\ Len(projects) = Cardinality(upload.file_codes)
        /\ upload.restored = Len(projects)

\* a file of two rows holding one distinct project code replaced a table
\* that held another project
C12_Witness ==
    /\ upload # NoResponse
    /\ upload.level = "success"
    /\ upload.file_rows = 2
    /\ Len(projects) = 1
    /\ CodesOf(upload.before) \ upload.file_codes # {}

(***************************************************************************)
(* Properties of the leaderboard's ranking.                                *)
(***************************************************************************)
\* the rows of the computed leaderboard
Rows == leaderboard.leaderboard

\* the number of people whose total_score is <= the total_score of row i
PeopleBeaten(i) ==
    Cardinality({k \in 1..Len(Rows) :
                    FLe(Rows[k].total_score, Rows[i].total_score)})

\* C13: percentile = floor(100 * (number of people whose total_score is <=
\* this person's) / (number of people)); the top scorer has percentile 100.
C13_PercentileIsTheFloor ==
    Ranking =>
        \A i \in 1..Len(Rows) :
            /\ Rows[i].percentile = (100 * PeopleBeaten(i)) \div Len(Rows)
            /\ (i = 1 => Rows[i].percentile = 100)

\* the place in the Project table of the first project of the person of row i
FirstAppearance(i) ==
    CHOOSE p \in 1..Len(projects) :
        /\ Lower(Strip(projects[p].people["design_id"])) = Rows[i].user_key
        /\ \A q \in 1..(p - 1) :
                Lower(Strip(projects[q].people["design_id"])) # Rows[i].user_key

\* C14: the ranks are 1..N, each once; a person with a strictly higher
\* total_score has a strictly smaller rank; people with equal total_score
\* are ranked in their order of first appearance.
C14_RanksDescendStably ==
    Ranking =>
        /\ {Rows[i].rank : i \in 1..Len(Rows)} = 1..Len(Rows)
        /\ \A i, k \in 1..Len(Rows) :
                FLt(Rows[k].total_score, Rows[i].total_score)
                    => Rows[i].rank < Rows[k].rank
        /\ \A i \in 1..(Len(Rows) - 1) :
                Rows[i].total_score = Rows[i + 1].total_score
                    => /\ Rows[i].rank < Rows[i + 1].rank
                       /\ FirstAppearance(i) < FirstAppearance(i + 1)

\* people of equal total_score, and a higher scorer who appears after a
\* lower one in the Project table and is ranked ahead
C14_Witness ==
    /\ Ranking
    /\ Len(Rows) >= 4
    /\ \E i \in 1..(Len(Rows) - 1) :
            Rows[i].total_score = Rows[i + 1].total_score
    /\ \E i, k \in 1..Len(Rows) :
            /\ Rows[i].rank < Rows[k].rank
            /\ FLt(Rows[k].total_score, Rows[i].total_score)
            /\ FirstAppearance(k) < FirstAppearance(i)

(***************************************************************************)
(* Properties of the leaderboard's aggregation.                            *)
(***************************************************************************)
\* the Project field of the role the leaderboard was asked for
BoardField ==
    (CHOOSE c \in RoleConfig(SplitLast(leaderboard.selected_role,
                                        <<" ", "-", " ">>)) : TRUE).field

\* a person: the role attribute, trimmed and lower-cased
PersonOf(name) == Lower(Strip(name))

\* the eligible projects of the leaderboard's request
EligiblePlaces ==
    {p \in 1..Len(projects) :
        Eligible(projects[p], BoardField, leaderboard.selected_sbus,
                 leaderboard.start_date, leaderboard.end_date)}

\* the eligible projects of the person of row i
PlacesOf(i) ==
    {p \in EligiblePlaces :
        PersonOf(projects[p].people[BoardField]) = PersonOf(Rows[i].name)}

RECURSIVE SumOfScores(_)
SumOfScores(breakdown) ==
    IF breakdown = <<>> THEN Rat(0)
    ELSE FAdd(Head(breakdown).score, SumOfScores(Tail(breakdown)))

\* C15: one row per distinct person (the role attribute trimmed and
\* lower-cased); a row's projects is the number of the person's eligible
\* projects, its total_score the sum of their scores, its breakdown one
\* record per project in descending order of score.
C15_AggregatesPerPerson ==
    Ranking =>
        /\ \A i, k \in 1..Len(Rows) :
                i # k => PersonOf(Rows[i].name) # PersonOf(Rows[k].name)
        /\ \A p \in EligiblePlaces : \E i \in 1..Len(Rows) : p \in PlacesOf(i)
        /\ \A i \in 1..Len(Rows) :
                LET breakdown == Rows[i].breakdown
                IN  /\ Rows[i].projects = Cardinality(PlacesOf(i))
                    /\ Len(breakdown) = Cardinality(PlacesOf(i))
                    /\ {breakdown[k].code : k \in 1..Len(breakdown)}
                            = {projects[p].project_code : p \in PlacesOf(i)}
                    /\ Rows[i].total_score = SumOfScores(breakdown)
                    /\ \A k \in 1..(Len(breakdown) - 1) :
                            FLe(breakdown[k + 1].score, breakdown[k].score)

\* one person under two spellings, with two projects, the later one of the
\* higher score
C15_Witness ==
    /\ Ranking
    /\ Len(Rows) = 1
    /\ Rows[1].projects = 2
    /\ projects[1].people["design_id"] # projects[2].people["design_id"]
    /\ Rows[1].breakdown[1].code = projects[2].project_code
    /\ FLt(Rows[1].breakdown[2].score, Rows[1].breakdown[1].score)

(***************************************************************************)
(* Properties of the error outcomes.                                       *)
(***************************************************************************)
\* no UserGroup's name contains the role's last part, whatever the case
NoGroupMatches(role) ==
    \A g \in GroupIds :
        ~Contains(Lower(GroupName(g)),
                  Lower(SplitLast(role, <<" ", "-", " ">>)))

\* the role's last part is no key of the leaderboard's role table
Unsupported(role) ==
    \A c \in ROLE_CONFIG : c.role # SplitLast(role, <<" ", "-", " ">>)

\* the fields of a response that carry a score, a total or a ranking
ScoreFields ==
    {"scores", "project_total", "project_total_int", "total_factor",
     "leaderboard", "user_group"}

\* the role a scorecard response answers
ScorecardRole ==
    IF "error" \in DOMAIN scorecard THEN scorecard.selected_role_full
    ELSE scorecard.raw_role_param

\* the role a leaderboard response answers
LeaderboardRole ==
    IF "error" \in DOMAIN leaderboard THEN leaderboard.role
    ELSE leaderboard.selected_role

\* C16: a request for a role that no UserGroup matches is answered, by the
\* scorecard and by the leaderboard, with an error and no score, total or
\* ranking; the leaderboard answers a role outside its role table the same
\* way, with an error of its own.
C16_UnmatchedRoleIsAnError ==
    /\ ("project" \in DOMAIN scorecard /\ NoGroupMatches(ScorecardRole)) =>
            /\ "error" \in DOMAIN scorecard
            /\ DOMAIN scorecard \cap ScoreFields = {}
    /\ (leaderboard # NoResponse /\ Unsupported(LeaderboardRole)) =>
            /\ "error" \in DOMAIN leaderboard
            /\ leaderboard.error = "Role not supported"
            /\ DOMAIN leaderboard \cap ScoreFields = {}
    /\ (leaderboard # NoResponse /\ ~Unsupported(LeaderboardRole)
          /\ NoGroupMatches(LeaderboardRole)) =>
            /\ "error" \in DOMAIN leaderboard
            /\ leaderboard.error = "User Group not found"
            /\ DOMAIN leaderboard \cap ScoreFields = {}

\* the scorecard asked for the role CEO and the leaderboard for the role DM,
\* which is in the role table, when no UserGroup matches either
C16_Witness ==
    /\ "error" \in DOMAIN scorecard
    /\ scorecard.selected_role_full = RoleCEO
    /\ "error" \in DOMAIN leaderboard
    /\ leaderboard.role = RoleDM
    /\ leaderboard.error = "User Group not found"

(***************************************************************************)
(* Properties of zero thresholds and zero denominators.                    *)
(***************************************************************************)
\* every breakdown record of the computed leaderboard
AllRecords ==
    UNION {{Rows[i].breakdown[k] : k \in 1..Len(Rows[i].breakdown)} :
            i \in 1..Len(Rows)}

\* the project a breakdown record is about
ProjectOfRecord(rec) ==
    projects[CHOOSE p \in 1..Len(projects) :
                projects[p].project_code = rec.code]

\* the metrics the leaderboard scores a record's project on: of the
\* record's stage, weighted > 0 for the leaderboard's user group
MetricsOfRecord(rec) ==
    {m \in MetricIds :
        /\ metrics[m] # NoMetric
        /\ metrics[m].stage = rec.stage
        /\ metric_weights[m][leaderboard.user_group] # NoWeight
        /\ metric_weights[m][leaderboard.user_group].factor > 0}

RECURSIVE SumOfBoardFactors(_)
SumOfBoardFactors(S) ==
    IF S = {} THEN 0
    ELSE LET m == CHOOSE x \in S : TRUE
         IN  metric_weights[m][leaderboard.user_group].factor
             + SumOfBoardFactors(S \ {m})

\* C17: a metric of threshold 0 has capped_progress 1 when the project's
\* value is positive and 0 when it is 0, in the scorecard and, through the
\* project's score, in the leaderboard: a project scored only on metrics of
\* threshold 0 earns the factors of those with a positive value.
C17_ZeroThreshold ==
    /\ Scored =>
            \A i \in 1..Len(scorecard.temp_list) :
                LET item == scorecard.temp_list[i]
                IN  item.threshold = 0 =>
                        /\ item.raw_value > 0 => item.capped_progress = Rat(1)
                        /\ item.raw_value = 0 => item.capped_progress = Rat(0)
    /\ Ranking =>
            \A rec \in AllRecords :
                LET scored_on == MetricsOfRecord(rec)
                    positive ==
                        {m \in scored_on : ProjectOfRecord(rec).values[m] > 0}
                IN  (/\ scored_on # {}
                     /\ \A m \in scored_on :
                            /\ default_threshold[m] = 0
                            /\ ProjectOfRecord(rec).values[m] >= 0)
                    => rec.score =
                            Round1(Norm(100 * SumOfBoardFactors(positive),
                                        SumOfBoardFactors(scored_on)))

\* two metrics of threshold 0, one with a positive value and one with the
\* value 0, in the scorecard and in the leaderboard's score of the project
C17_Witness ==
    /\ Scored
    /\ \E i, k \in 1..Len(scorecard.temp_list) :
            /\ scorecard.temp_list[i].threshold = 0
            /\ scorecard.temp_list[i].raw_value > 0
            /\ scorecard.temp_list[i].capped_progress = Rat(1)
            /\ scorecard.temp_list[k].threshold = 0
            /\ scorecard.temp_list[k].raw_value = 0
            /\ scorecard.temp_list[k].capped_progress = Rat(0)
    /\ Ranking
    /\ \E rec \in AllRecords :
            /\ Cardinality(MetricsOfRecord(rec)) = 2
            /\ \A m \in MetricsOfRecord(rec) : default_threshold[m] = 0
            /\ \E m \in MetricsOfRecord(rec) :
                    ProjectOfRecord(rec).values[m] > 0
            /\ \E m \in MetricsOfRecord(rec) :
                    ProjectOfRecord(rec).values[m] = 0
            /\ FLt(Rat(0), rec.score)
            /\ FLt(rec.score, Rat(100))

(***************************************************************************)
(* Properties of the metrics the scorecard leaves out.                     *)
(***************************************************************************)
\* the metrics of the scorecard's stage and the group's department
MetricsOfScorecard ==
    {m \in MetricIds :
        /\ metrics[m] # NoMetric
        /\ metrics[m].stage = scorecard.metric_stage
        /\ metrics[m].department = GroupDepartment(scorecard.user_group)}

\* those with no weight entry for the group, or a weight <= 0
LeftOut == MetricsOfScorecard \ IncludedMetrics

\* the progress of metric m, capped
ProgressOf(m) ==
    LET raw == ScoredProject.values[m]
        threshold == default_threshold[m]
    IN  IF threshold > 0 THEN FMin(Norm(raw, threshold), Rat(1))
        ELSE IF raw > 0 THEN Rat(1) ELSE Rat(0)

RECURSIVE SumOfPoints(_, _)
SumOfPoints(S, total_factor) ==
    IF S = {} THEN Rat(0)
    ELSE LET m == CHOOSE x \in S : TRUE
         IN  FAdd(FMul(ProgressOf(m), Norm(FactorOf(m) * 100, total_factor)),
                  SumOfPoints(S \ {m}, total_factor))

\* C18: a metric with no weight entry for the group, or a weight <= 0, has
\* no result row; the rows, the denominator total_factor, every
\* target_percent and the project_total are those of the other metrics
\* alone.
C18_UnweightedMetricsLeftOut ==
    Scored =>
        LET rows == scorecard.scores
            total == SumOfFactors(IncludedMetrics)
        IN  /\ \A i \in 1..Len(rows) : rows[i].metric \notin LeftOut
            /\ {rows[i].metric : i \in 1..Len(rows)} = IncludedMetrics
            /\ Len(rows) = Cardinality(IncludedMetrics)
            /\ scorecard.total_factor = total
            /\ \A i \in 1..Len(rows) :
                    rows[i].target_percent =
                        Round1(Norm(rows[i].factor * 100, total))
            /\ IncludedMetrics # {} =>
                    scorecard.project_total =
                        Round1(SumOfPoints(IncludedMetrics, total))

\* a scorecard of a stage with a metric without weight entry, or of weight
\* <= 0, next to two weighted metrics
C18_Witness ==
    /\ Scored
    /\ LeftOut # {}
    /\ Cardinality(IncludedMetrics) = 2
    /\ Len(scorecard.scores) = 2
    /\ FLt(Rat(0), scorecard.project_total)

\* C19: a zero denominator gives a zero score: a scorecard of total_factor
\* 0 has project_total 0 and every target_percent 0; in the leaderboard an
\* eligible project whose stage has a stage total of 0 has the score 0 and
\* is counted among its person's projects.
C19_ZeroDenominator ==
    /\ (Scored /\ scorecard.total_factor = 0) =>
            /\ scorecard.project_total = Rat(0)
            /\ scorecard.project_total_int = 0
            /\ \A i \in 1..Len(scorecard.scores) :
                    scorecard.scores[i].target_percent = Rat(0)
    /\ Ranking =>
            \A p \in EligiblePlaces :
                \E i \in 1..Len(Rows) :
                    /\ Rows[i].projects = Len(Rows[i].breakdown)
                    /\ \E k \in 1..Len(Rows[i].breakdown) :
                            LET rec == Rows[i].breakdown[k]
                            IN  /\ rec.code = projects[p].project_code
                                /\ leaderboard.stage_totals[rec.stage] = 0
                                        => rec.score = Rat(0)

\* a project of a stage without weighted metric: its scorecard and its
\* record in the leaderboard
C19_Witness ==
    /\ Scored
    /\ scorecard.total_factor = 0
    /\ scorecard.project_total = Rat(0)
    /\ Ranking
    /\ Len(Rows) = 1
    /\ Rows[1].projects = 1
    /\ leaderboard.stage_totals[Rows[1].breakdown[1].stage] = 0
    /\ Rows[1].breakdown[1].score = Rat(0)

(***************************************************************************)
(* Properties of the leaderboard's project query.                          *)
(***************************************************************************)
\* a date of the project lies within [start, end] of the request
DateWithin(date) ==
    date # 0 /\ leaderboard.start_date <= date /\ date <= leaderboard.end_date

\* the conditions on project p, but the one on the emptiness of its code
FiltersPass(p) ==
    /\ projects[p].sbu \in leaderboard.selected_sbus
    /\ projects[p].people[BoardField] # <<>>
    /\ projects[p].project_code # TestProjectCode
    /\ \/ DateWithin(projects[p].login_date)
       \/ DateWithin(projects[p].start_date)

\* the records of project p in the breakdowns of the leaderboard
RecordsOf(p) ==
    {place \in {<<i, k>> : i \in 1..Len(Rows), k \in 1..MaxPeople + 1} :
        /\ place[2] <= Len(Rows[place[1]].breakdown)
        /\ Rows[place[1]].breakdown[place[2]].code = projects[p].project_code}

RECURSIVE SumOfProjects(_)
SumOfProjects(i) ==
    IF i = 0 THEN 0 ELSE Rows[i].projects + SumOfProjects(i - 1)

\* C20 as stated: a project has one record in the leaderboard when its SBU
\* is in the filter, its role attribute and its project code are not empty,
\* the code is not the test code and its login date or its start date is
\* within the range, and no record otherwise.
C20_ContributesIffEligible ==
    Ranking =>
        \A p \in 1..Len(projects) :
            Cardinality(RecordsOf(p)) =
                IF FiltersPass(p) /\ projects[p].project_code # <<>>
                THEN 1 ELSE 0

\* C20 amended: a project code of white space alone counts as empty. A
\* project has one record when the conditions hold and none otherwise, and
\* the projects counts of the rows add up to the number of such projects.
C20_ContributesIffEligibleAndCoded ==
    Ranking =>
        /\ \A p \in 1..Len(projects) :
                Cardinality(RecordsOf(p)) =
                    IF FiltersPass(p) /\ Strip(projects[p].project_code) # <<>>
                    THEN 1 ELSE 0
        /\ SumOfProjects(Len(Rows)) =
                Cardinality({p \in 1..Len(projects) :
                                /\ FiltersPass(p)
                                /\ Strip(projects[p].project_code) # <<>>})

\* a project with both dates on the bounds of the range, counted once, next
\* to the other project
C20_Witness ==
    /\ Ranking
    /\ leaderboard.start_date = 5
    /\ projects[1].login_date = 5
    /\ projects[1].start_date = 5
    /\ FiltersPass(1)
    /\ Cardinality(RecordsOf(1)) = 1
    /\ SumOfProjects(Len(Rows)) = 2

(***************************************************************************)
(* What rebalance_credits leaves alone. Saved(m, row) is the Metric table  *)
(* once the admin has saved the form of metric m, and AfterRebalance(m, row)  *)
(* the table rebalance_credits makes of it.                                *)
(***************************************************************************)
Saved(m, row) == [metrics EXCEPT ![m] = row]

AfterRebalance(m, row) == RebalanceCredits(Saved(m, row), m)

\* C21: rebalance_credits changes no weight when the edited metric is
\* visible to no group, and changes no weight of a bucket without auto
\* metric, whatever that bucket sums to.
C21_NoGroupsOrNoAutosNoChange ==
    \A m \in MetricIds : \A row \in FormRows(m) :
        LET saved == Saved(m, row)
            after == AfterRebalance(m, row)
        IN  /\ row.visible_to_groups = {} => after = saved
            /\ \A g \in row.visible_to_groups :
                    LET team == TeamMetrics(saved, row.department, row.stage, g)
                    IN  Autos(saved, team) = {} =>
                            \A x \in team :
                                after[x].credit_weight = saved[x].credit_weight

\* rebalance_credits has run on a bucket of two manual metrics and no auto
\* metric, which sums to 70 and is left so
C21_Witness ==
    /\ Rebalanced
    /\ Autos(metrics, LastTeam) = {}
    /\ Cardinality(LastTeam) = 2
    /\ BucketSum(metrics, LastDepartment, LastStage, LastGroup) = Rat(70)

BothDone == \A c \in Clients : requests[c].pc = "done"

TheBucket == TeamMetrics(metrics, 1, "Pre", 1)

\* C23: when the edits of two operators to one bucket are interleaved, then,
\* once both rebalances have completed, the bucket sums to 100 if it has an
\* auto metric and its manual weights sum to at most 100.
C23_InterleavedEditsSumTo100 ==
    (/\ BothDone
     /\ Autos(metrics, TheBucket) # {}
     /\ FLe(ManualSum(metrics, TheBucket), Rat(100))) =>
        BucketSum(metrics, 1, "Pre", 1) = Rat(100)

(***************************************************************************)
(* Properties of concurrent uploads.                                       *)
(***************************************************************************)
\* both uploads have answered 'Restored'
BothRestored ==
    \A c \in Clients :
        requests[c].pc = "done" /\ requests[c].level = "success"

\* C24: when two uploads run at the same time, then after both have
\* finished the Project table holds the projects of one of the two files:
\* not rows of both, and not no row.
C24_OneFileAfterTwoUploads ==
    BothRestored =>
        \E c \in Clients :
            projects = NewProjects(requests[c].project_data_map)

(***************************************************************************)
(* Properties of an upload without project data.                           *)
(***************************************************************************)
\* C25: an upload of a readable workbook none of whose rows resolves to a
\* project identifier deletes nothing: the Project rows are what they
\* were and the outcome is the error 'No valid project data found in file.'
C25_NoDataDeletesNothing ==
    (/\ upload # NoResponse
     /\ upload.readable
     /\ upload.file_codes = {}) =>
        /\ upload.level = "error"
        /\ upload.message = "No valid project data found in file."
        /\ projects = upload.before

\* a table of a project, and after it the upload of a workbook of rows
\* without identifier
C25_Witness ==
    /\ upload # NoResponse
    /\ upload.readable
    /\ upload.file_codes = {}
    /\ upload.message = "No valid project data found in file."
    /\ upload.before # <<>>
    /\ projects = upload.before

====
